---- MODULE Spec2Model ----
(***************************************************************************)
(* Model of libdeep's convolution stack, src/src/deeplearn_conv.c:         *)
(* conv_init, conv_free, conv_plot_history, convolve_image,                *)
(* conv_feed_forward and conv_learn operating on one deeplearn_conv.       *)
(*                                                                         *)
(* C float values are modelled as exact rationals <<num, den>> (den > 0,   *)
(* lowest terms); C int division truncates toward zero (CDiv).  Arrays     *)
(* are functions on 0..n-1.                                                *)
(***************************************************************************)
EXTENDS Integers, Sequences, FiniteSets, TLC

VARIABLES
    pc,         \* lifecycle of the deeplearn_conv instance: "new", "ready", "failed", "freed"
    args,       \* the arguments the caller passes to conv_init
    conv,       \* the deeplearn_conv struct and the buffers it owns
    beyond,     \* values stored past the end of conv->outputs (heap memory that is not the buffer's)
    call,       \* the most recent call: operation, inputs, and the order of its internal steps
    init_feature, \* the feature banks as conv_init left them, by layer
    ret         \* value returned by the most recent call (a rational)

vars == <<pc, args, conv, beyond, call, init_feature, ret>>

----------------------------------------------------------------------------
(* Bounds of the model *)

\* layers of the networks of the state machine
MaxLayers == 2

\* samples per conv_learn call; conv->itterations is capped at the same value
MaxSamples == 2
MaxIter == MaxSamples

\* argument ranges for conv_init when only the geometry is examined
MaxGeomLayers == 3
MaxGeomWidth == 5
MaxGeomFeatureWidth == 4

----------------------------------------------------------------------------
(* Arithmetic *)

Abs(x) == IF x < 0 THEN -x ELSE x

Max(a, b) == IF a >= b THEN a ELSE b

\* C integer division: truncation toward zero
CDiv(a, b) ==
    IF a >= 0 /\ b > 0 THEN a \div b
    ELSE IF (a >= 0) = (b > 0) THEN Abs(a) \div Abs(b) ELSE -(Abs(a) \div Abs(b))

RECURSIVE GCD(_, _)
GCD(a, b) == IF b = 0 THEN a ELSE GCD(b, a % b)

\* the rational n/d in lowest terms with a positive denominator
Rat(n, d) ==
    IF d = 1 THEN <<n, 1>>
    ELSE LET g == GCD(Abs(n), Abs(d))
             s == IF d < 0 THEN -1 ELSE 1
         IN  <<s * (n \div g), s * (d \div g)>>

RInt(n) == <<n, 1>>

RAdd(a, b) ==
    IF a[2] = b[2] THEN Rat(a[1] + b[1], a[2])
    ELSE LET g == GCD(a[2], b[2])
             l == (a[2] \div g) * b[2]
         IN  Rat(a[1] * (l \div a[2]) + b[1] * (l \div b[2]), l)

RNeg(a) == <<-a[1], a[2]>>

RSub(a, b) == RAdd(a, RNeg(b))

RMul(a, b) ==
    IF a[2] = 1 /\ b[2] = 1 THEN <<a[1] * b[1], 1>>
    ELSE LET g1 == GCD(Abs(a[1]), b[2])
             g2 == GCD(Abs(b[1]), a[2])
         IN  Rat((a[1] \div g1) * (b[1] \div g2), (a[2] \div g2) * (b[2] \div g1))

RLess(a, b) == a[1] * b[2] < b[1] * a[2]

RLeq(a, b) == a[1] * b[2] <= b[1] * a[2]

\* a freshly allocated float array of n entries, every entry holding v
Buffer(n, v) == [i \in 0..(n - 1) |-> v]

\* the array buf itself; the comparison makes TLC compute its entries once
\* instead of at every later read
Computed(buf) == IF buf = buf THEN buf ELSE buf

BufLen(buf) == Cardinality(DOMAIN buf)

----------------------------------------------------------------------------
(* Layer geometry and construction: conv_init *)

\* conv->layer[l].width
LayerWidth(image_width, final_image_width, l, no_of_layers) ==
    image_width - CDiv((image_width - final_image_width) * l, no_of_layers)

\* conv->layer[l].height, given the width already stored for layer l
LayerHeight(image_height, final_image_height, l, no_of_layers, width) ==
    IF l = 0
    THEN image_height - CDiv((image_height - final_image_height) * l, no_of_layers)
    ELSE width

\* faulty variant of FeatureWidth, without the floor at 3 (C7 fails with it)
FeatureWidthUnfloored(feature_width, width, image_width) ==
    CDiv(feature_width * width, image_width)

\* conv->layer[l].feature_width, given the width already stored for layer l
FeatureWidth(feature_width, width, image_width) ==
    LET fw == CDiv(feature_width * width, image_width)
    IN  IF fw < 3 THEN 3 ELSE fw

\* the scalar fields conv_init stores for layer l
RECURSIVE LayerGeometry(_, _)
LayerGeometry(a, l) ==
    LET width == LayerWidth(a.image_width, a.final_image_width, l, a.no_of_layers)
    IN  [width |-> width,
         height |-> LayerHeight(a.image_height, a.final_image_height, l,
                                a.no_of_layers, width),
         depth |-> IF l = 0 THEN a.image_depth
                   ELSE LayerGeometry(a, l - 1).no_of_features,
         no_of_features |-> a.no_of_features,
         feature_width |-> FeatureWidth(a.feature_width, width, a.image_width)]

\* number of floats in layer l's activation buffer and in its feature bank
LayerSize(g) == g.width * g.height * g.depth

FeatureSize(g) == g.no_of_features * g.feature_width * g.feature_width * g.depth

\* the length conv_init gives the outputs buffer
NoOfOutputs(a) ==
    a.final_image_width * a.final_image_width
        * LayerGeometry(a, a.no_of_layers - 1).depth

\* a NULL pointer / an array that was never allocated
NullBuffer == <<>>

\* a layer entry conv_init never reached
UnsetLayer ==
    [width |-> 0, height |-> 0, depth |-> 0, no_of_features |-> 0,
     feature_width |-> 0, layer |-> NullBuffer, feature |-> NullBuffer]

\* the struct before conv_init has run
NullConv ==
    [no_of_layers |-> 0, current_layer |-> 0, learning_rate |-> RInt(0),
     itterations |-> 0, training_ctr |-> 0, history_index |-> 0,
     layer |-> <<>>, outputs_width |-> 0, no_of_outputs |-> 0,
     outputs |-> NullBuffer, match_threshold |-> NullBuffer]

\* The allocations of conv_init are numbered in program order: 2l is layer
\* l's activation buffer, 2l+1 its feature bank, 2N the outputs buffer and
\* 2N+1 the threshold buffer.  fail is the number of the allocation that
\* returns NULL, or NoFailure.
NoFailure == -1

Reached(fail, site) == fail = NoFailure \/ site <= fail

Allocated(fail, site) == fail = NoFailure \/ site < fail

InitReturn(no_of_layers, fail) ==
    IF fail = NoFailure THEN 0
    ELSE IF fail < 2 * no_of_layers THEN (IF fail % 2 = 0 THEN 1 ELSE 2)
    ELSE IF fail = 2 * no_of_layers THEN 3
    ELSE 4

\* conv_init.  malloc leaves the new arrays uninitialised: their content is
\* the caller's choice of garbage (ga for activations and outputs, gf for
\* feature banks).  history_index is never assigned by conv_init, so it
\* keeps whatever the struct held (hist).
conv_init(a, fail, ga, gf, hist) ==
    LET N == a.no_of_layers
        InitialLayer == 0
        layerOf(l) ==
            IF ~Reached(fail, 2 * l) THEN UnsetLayer
            ELSE LET g == LayerGeometry(a, l)
                 IN  [width |-> g.width, height |-> g.height, depth |-> g.depth,
                      no_of_features |-> g.no_of_features,
                      feature_width |-> g.feature_width,
                      layer |-> IF Allocated(fail, 2 * l)
                                THEN Buffer(LayerSize(g), ga) ELSE NullBuffer,
                      feature |-> IF Allocated(fail, 2 * l + 1)
                                  THEN Buffer(FeatureSize(g), gf) ELSE NullBuffer]
        past == Reached(fail, 2 * N)
    IN  [ret |-> InitReturn(N, fail),
         conv |->
            [no_of_layers |-> N,
             current_layer |-> InitialLayer,
             learning_rate |-> Rat(1, 10),
             itterations |-> 0,
             training_ctr |-> 0,
             history_index |-> hist,
             layer |-> [l \in 0..(N - 1) |-> layerOf(l)],
             outputs_width |-> IF past THEN a.final_image_width ELSE 0,
             no_of_outputs |-> IF past THEN NoOfOutputs(a) ELSE 0,
             outputs |-> IF Allocated(fail, 2 * N)
                         THEN Buffer(NoOfOutputs(a), ga) ELSE NullBuffer,
             match_threshold |-> IF Allocated(fail, 2 * N + 1)
                                 THEN a.match_threshold ELSE NullBuffer]]

----------------------------------------------------------------------------
(* Convolution engine: convolve_image *)

\* term[lo] + ... + term[hi - 1].  The C loop adds the terms one by one; in
\* exact arithmetic the order of the additions does not change the sum.
RECURSIVE SumRange(_, _, _)
SumRange(term, lo, hi) ==
    IF hi <= lo THEN RInt(0)
    ELSE IF hi = lo + 1 THEN term[lo]
    ELSE LET mid == (lo + hi) \div 2
         IN  RAdd(SumRange(term, lo, mid), SumRange(term, mid, hi))

SumTerms(term, n) == SumRange(term, 0, n)

\* faulty variant of Similarity, without the scaling by feature_pixels (C6
\* fails with it)
SimilarityUnscaled(match, feature_width, img_depth) == RSub(RInt(1), match)

\* 1.0f - (match * feature_pixels), feature_pixels = 1/(fw*fw*depth)
Similarity(match, feature_width, img_depth) ==
    RSub(RInt(1), RMul(match, Rat(1, feature_width * feature_width * img_depth)))

\* squared distance between feature f and the patch of img that output cell
\* (layer_y, layer_x) is mapped to
Match(img, img_width, img_height, img_depth, feature_width, feature, layer_width, layer_y, layer_x, f) ==
    LET ty == CDiv(layer_y * img_height, layer_width)
        by == CDiv((layer_y + 1) * img_height, layer_width)
        tx == CDiv(layer_x * img_width, layer_width)
        bx == CDiv((layer_x + 1) * img_width, layer_width)
        base == f * feature_width * feature_width * img_depth
        term == [j \in 0..(feature_width * feature_width * img_depth - 1) |->
                    LET d == j % img_depth
                        xx == (j \div img_depth) % feature_width
                        yy == (j \div img_depth) \div feature_width
                        tyy == ty + CDiv(yy * (by - ty), feature_width)
                        txx == tx + CDiv(xx * (bx - tx), feature_width)
                        n0 == ((tyy * img_width) + txx) * img_depth
                        n1 == ((yy * feature_width) + xx) * img_depth
                        diff == RSub(img[n0 + d], feature[base + n1 + d])
                    IN  RMul(diff, diff)]
    IN  SumTerms(term, feature_width * feature_width * img_depth)

\* the values convolve_image stores, by the index of layer[] it stores them at
convolve_image(img, img_width, img_height, img_depth, feature_width, no_of_features, feature, layer_width) ==
    [i \in 0..(layer_width * layer_width * no_of_features - 1) |->
        LET f == i % no_of_features
            layer_x == (i \div no_of_features) % layer_width
            layer_y == (i \div no_of_features) \div layer_width
        IN  Similarity(Match(img, img_width, img_height, img_depth,
                             feature_width, feature, layer_width,
                             layer_y, layer_x, f),
                       feature_width, img_depth)]

\* the array dest after the stores of written; stores at indexes past the
\* end of dest do not land in dest
StoreInto(dest, written) ==
    [i \in DOMAIN dest |-> IF i \in DOMAIN written THEN written[i] ELSE dest[i]]

\* the stores of written that fall past the end of dest, by their offset from it
Spill(dest, written) ==
    LET n == BufLen(dest)
    IN  [j \in 0..(BufLen(written) - n - 1) |-> written[n + j]]

----------------------------------------------------------------------------
(* Feed-forward pipeline: conv_feed_forward *)

\* (float)img[i] / 255.0f
Normalize(byte) == Rat(byte, 255)

NormalizedImage(img, n) == [i \in 0..(n - 1) |-> Normalize(img[i])]

\* whether stage l writes layer l+1's activation buffer (else: outputs)
WritesNextLayer(l, no_of_layers) == l < no_of_layers - 1

\* stages l, l+1, ..., layer-1 of the COUNTUP loop, applied to struct c with
\* the heap cells b past the end of outputs
RECURSIVE FeedStages(_, _, _, _)
FeedStages(c, b, l, layer) ==
    IF l >= layer THEN [conv |-> c, beyond |-> b]
    ELSE
        LET cur == c.layer[l]
            toNext == WritesNextLayer(l, c.no_of_layers)
            next_layer == IF toNext THEN c.layer[l + 1].layer ELSE c.outputs
            next_layer_width == IF toNext THEN c.layer[l + 1].width
                                ELSE c.outputs_width
            written == Computed(convolve_image(cur.layer, cur.width, cur.height,
                                               cur.depth, cur.feature_width,
                                               cur.no_of_features, cur.feature,
                                               next_layer_width))
            stored == Computed(StoreInto(next_layer, written))
            spill == Spill(next_layer, written)
            c2 == IF toNext
                  THEN [c EXCEPT !.layer[l + 1].layer = stored]
                  ELSE [c EXCEPT !.outputs = stored]
            b2 == IF spill = <<>> THEN b ELSE spill
        IN  FeedStages(c2, b2, l + 1, layer)

conv_feed_forward(c, b, img, layer) ==
    LET n == c.layer[0].width * c.layer[0].height * c.layer[0].depth
        c0 == [c EXCEPT !.layer[0].layer = Computed(NormalizedImage(img, n))]
    IN  FeedStages(c0, b, 0, layer)

----------------------------------------------------------------------------
(* Layer-wise training controller: conv_learn *)

\* the external learning operation, called on one feature bank: it returns
\* a score and may rewrite the bank in place.  The stub returns the fixed
\* score k and leaves every entry of the bank holding nf.
learn_features(feature, k, nf) ==
    [score |-> k, feature |-> [i \in DOMAIN feature |-> nf]]

\* faulty variant of LearnLoop, handing layer 0's bank to the learning
\* operation whatever the layer being trained (C10 fails with it)
RECURSIVE LearnLoopFirstBank(_, _, _, _, _, _)
LearnLoopFirstBank(c, layer, matching_score, s, k, nf) ==
    IF s < 0 THEN [conv |-> c, matching_score |-> matching_score]
    ELSE
        LET r == learn_features(c.layer[0].feature, k, nf)
            c2 == [c EXCEPT !.layer[0].feature = r.feature,
                            !.itterations = @ + 1]
        IN  LearnLoopFirstBank(c2, layer, RAdd(matching_score, r.score), s - 1, k, nf)

\* iterations s, s-1, ..., 0 of the COUNTDOWN loop over the samples
RECURSIVE LearnLoop(_, _, _, _, _, _)
LearnLoop(c, layer, matching_score, s, k, nf) ==
    IF s < 0 THEN [conv |-> c, matching_score |-> matching_score]
    ELSE
        LET r == learn_features(c.layer[layer].feature, k, nf)
            c2 == [c EXCEPT !.layer[layer].feature = r.feature,
                            !.itterations = @ + 1]
        IN  LearnLoop(c2, layer, RAdd(matching_score, r.score), s - 1, k, nf)

\* if (layer >= conv->no_of_layers)
IsTerminal(layer, no_of_layers) == layer >= no_of_layers

\* faulty variant of TerminalScore, the sentinel of the failed allocation
\* (C2 fails with it)
TerminalScoreSentinel == RInt(-1)

\* what conv_learn returns in the terminal state
TerminalScore == RInt(0)

\* what conv_learn returns when the scratch buffer cannot be allocated
AllocFailedScore == RInt(-1)

\* faulty variant of GoodEnough, <= for < (C1 fails with it)
GoodEnoughOrEqual(matching_score, threshold) == RLeq(matching_score, threshold)

\* if (matching_score < conv->match_threshold[layer])
GoodEnough(matching_score, threshold) == RLess(matching_score, threshold)

\* faulty variant of NextLayer, skipping a layer (C3 fails with it)
NextLayerSkipping(current_layer) == current_layer + 2

\* conv->current_layer++
NextLayer(current_layer) == current_layer + 1

\* faulty variant of LearnEntry, running the feed-forward pass before the
\* allocation of feature_score (C9 fails with it)
LearnEntryFeedFirst(c, b, img, alloc_ok) ==
    LET layer == c.current_layer
    IN  IF IsTerminal(layer, c.no_of_layers)
        THEN [at |-> "terminal", conv |-> c, beyond |-> b, layer |-> layer,
              ret |-> TerminalScore, steps |-> <<>>]
        ELSE
            LET ff == conv_feed_forward(c, b, img, layer)
            IN  IF ~alloc_ok
                THEN [at |-> "alloc_failed", conv |-> ff.conv,
                      beyond |-> ff.beyond, layer |-> layer,
                      ret |-> AllocFailedScore,
                      steps |-> <<"feed_forward", "alloc">>]
                ELSE [at |-> "training", conv |-> ff.conv,
                      beyond |-> ff.beyond, layer |-> layer, ret |-> RInt(0),
                      steps |-> <<"feed_forward", "alloc">>]

\* conv_learn up to and including its feed-forward pass, on struct c (b: the
\* heap cells past outputs).  alloc_ok says whether the allocation of
\* feature_score succeeds.  at tells where the call stands: returned at the
\* terminal test, returned on the failed allocation, or about to train.
\* steps lists what the call did so far, in order.
LearnEntry(c, b, img, alloc_ok) ==
    LET layer == c.current_layer
    IN  IF IsTerminal(layer, c.no_of_layers)
        THEN [at |-> "terminal", conv |-> c, beyond |-> b, layer |-> layer,
              ret |-> TerminalScore, steps |-> <<>>]
        ELSE IF ~alloc_ok
        THEN [at |-> "alloc_failed", conv |-> c, beyond |-> b, layer |-> layer,
              ret |-> AllocFailedScore, steps |-> <<"alloc">>]
        ELSE
            LET ff == conv_feed_forward(c, b, img, layer)
            IN  [at |-> "training", conv |-> ff.conv, beyond |-> ff.beyond,
                 layer |-> layer, ret |-> RInt(0),
                 steps |-> <<"alloc", "feed_forward">>]

\* the rest of conv_learn: the loop over the samples, the release of the
\* scratch buffer, the threshold test and the return
LearnFinish(e, samples, k, nf) ==
    IF e.at # "training"
    THEN [conv |-> e.conv, beyond |-> e.beyond, ret |-> e.ret, steps |-> e.steps]
    ELSE
        LET layer == e.layer
            lr == LearnLoop(e.conv, layer, e.ret, samples - 1, k, nf)
            advance == GoodEnough(lr.matching_score,
                                  lr.conv.match_threshold[layer])
            c3 == IF advance
                  THEN [lr.conv EXCEPT !.current_layer = NextLayer(@)]
                  ELSE lr.conv
        IN  [conv |-> c3, beyond |-> e.beyond, ret |-> lr.matching_score,
             steps |-> e.steps
                       \o [i \in 1..Max(samples, 0) |-> "learn_features"]
                       \o <<"free">>
                       \o (IF advance THEN <<"advance">> ELSE <<>>)]

\* conv_learn(img, conv, samples, random_seed) as a whole
conv_learn(c, b, img, samples, k, nf, alloc_ok) ==
    LearnFinish(LearnEntry(c, b, img, alloc_ok), samples, k, nf)

----------------------------------------------------------------------------
(* Inputs *)

\* scores the learning stub can be set to return
Scores == {RInt(0), Rat(1, 2)}

\* the caller's threshold array: (l+1)/2 for layer l
ThresholdRamp(N) == [l \in 0..(N - 1) |-> Rat(l + 1, 2)]

\* values the learning stub writes into a feature bank
FeatureValues == {RInt(1)}

\* content of uninitialised float arrays: activations and outputs, feature banks
ActivationGarbage == {Rat(1, 2)}

FeatureGarbage == {RInt(0)}

\* content of the never-assigned history_index
GarbageIndexes == {0, 1}

\* pixel values of the (uniform) images fed to the networks
PixelValues == {255}

ScenarioPixels == {0, 255}

\* raw images matching layer 0 of struct c, every byte drawn from pixels
Images(c, pixels) ==
    LET n == c.layer[0].width * c.layer[0].height * c.layer[0].depth
    IN  {[i \in 0..(n - 1) |-> v] : v \in pixels}

\* argument lists for conv_init
ArgsOf(N, iw, ih, d, nf, fw, fiw, fih, thr) ==
    [no_of_layers |-> N, image_width |-> iw, image_height |-> ih,
     image_depth |-> d, no_of_features |-> nf, feature_width |-> fw,
     final_image_width |-> fiw, final_image_height |-> fih,
     match_threshold |-> thr]

\* features per layer
FeatureCounts == {1, 2}

\* 2x2x1 images reduced to 1x1
NetArgs ==
    {ArgsOf(N, 2, 2, 1, nf, 3, 1, 1, ThresholdRamp(N)) :
        N \in 1..MaxLayers, nf \in FeatureCounts}

\* every geometry within the bounds
GeomArgs ==
    UNION {{ArgsOf(N, iw, ih, d, nf, fw, fiw, fiw, ThresholdRamp(N)) :
               N \in 1..MaxGeomLayers, ih \in {1, iw}, d \in 1..2, nf \in 1..2,
               fw \in (-1)..MaxGeomFeatureWidth, fiw \in 1..MaxGeomWidth} :
           iw \in 1..MaxGeomWidth}

\* 2 layers, image 8x8x1, final size 4x4, 2 features of width 4,
\* thresholds 0.5 and 0.5
ScenarioArgs ==
    ArgsOf(2, 8, 8, 1, 2, 4, 4, 4, [l \in 0..1 |-> Rat(1, 2)])

NoCall == [op |-> "none"]

----------------------------------------------------------------------------
(* The state machine *)

InitWith(argset) ==
    /\ pc = "new"
    /\ args \in argset
    /\ conv = NullConv
    /\ beyond = <<>>
    /\ call = NoCall
    /\ init_feature = <<>>
    /\ ret = RInt(0)

Init == InitWith(NetArgs)

InitGeom == InitWith(GeomArgs)

InitScenario == InitWith({ScenarioArgs})

\* conv_init(...) called on the new struct
ConvInit ==
    /\ pc = "new"
    /\ \E fail \in NoFailure..(2 * args.no_of_layers + 1),
          ga \in ActivationGarbage, gf \in FeatureGarbage, hist \in GarbageIndexes :
          \E r \in {conv_init(args, fail, ga, gf, hist)} :
              /\ conv' = r.conv
              /\ ret' = RInt(r.ret)
              /\ pc' = IF r.ret = 0 THEN "ready" ELSE "failed"
              /\ init_feature' = [l \in DOMAIN r.conv.layer |-> r.conv.layer[l].feature]
              /\ call' = [op |-> "conv_init", fail |-> fail]
    /\ UNCHANGED <<args, beyond>>

\* Stores past the end of outputs hit whatever the allocator placed there.
\* conv_init allocates match_threshold right after outputs: when the two
\* blocks are adjacent the spilled values overwrite the thresholds.
Clobber(c, spill, adjacent) ==
    IF adjacent
    THEN [c EXCEPT !.match_threshold =
              [i \in DOMAIN @ |-> IF i \in DOMAIN spill THEN spill[i] ELSE @[i]]]
    ELSE c

\* conv_feed_forward(img, conv, layer), the image drawn from pixels
FeedForward(pixels) ==
    /\ pc = "ready"
    /\ \E img \in Images(conv, pixels), layer \in 0..conv.no_of_layers :
          \E r \in {conv_feed_forward(conv, <<>>, img, layer)} :
              \E adjacent \in (IF r.beyond = <<>> THEN {FALSE} ELSE BOOLEAN) :
                  /\ conv' = Clobber(r.conv, r.beyond, adjacent)
                  /\ beyond' = IF r.beyond = <<>> THEN beyond ELSE r.beyond
                  /\ call' = [op |-> "conv_feed_forward", img |-> img,
                              layer |-> layer]
    /\ UNCHANGED <<pc, args, init_feature, ret>>

\* The record of a conv_learn call: the inputs the call got as far as
\* reading, and the steps it took.  A call that returns at the terminal test
\* reads none of its inputs; one whose allocation fails has not yet used
\* samples or the learning operation.
LearnCall(at, img, samples, k, steps) ==
    IF at = "terminal"
    THEN [op |-> "conv_learn", at |-> at, steps |-> steps]
    ELSE IF at = "alloc_failed"
    THEN [op |-> "conv_learn", at |-> at, img |-> img, steps |-> steps]
    ELSE [op |-> "conv_learn", at |-> at, img |-> img, samples |-> samples,
          score |-> k, steps |-> steps]

\* conv_learn(img, conv, samples, random_seed) with the learning stub set to
\* return k; the image is drawn from pixels, samples from counts, k from scores
Learn(pixels, counts, scores) ==
    /\ pc = "ready"
    /\ \E img \in Images(conv, pixels), alloc_ok \in BOOLEAN :
          \E e \in {LearnEntry(conv, beyond, img, alloc_ok)} :
              \E samples \in counts, k \in scores, nf \in FeatureValues :
                  /\ conv.itterations + Max(samples, 0) <= MaxIter
                  /\ \E r \in {LearnFinish(e, samples, k, nf)} :
                        /\ conv' = r.conv
                        /\ beyond' = r.beyond
                        /\ ret' = r.ret
                        /\ call' = LearnCall(e.at, img, samples, k, r.steps)
    /\ UNCHANGED <<pc, args, init_feature>>

ConvFeedForward == FeedForward(PixelValues)

ConvLearn == Learn(PixelValues, (-1)..MaxSamples, Scores)

ScenarioFeedForward == FeedForward(ScenarioPixels)

ScenarioLearn == Learn(ScenarioPixels, {1}, {RInt(0)})

\* conv_plot_history: one data row per index below history_index; the
\* result is -1 when a file cannot be opened, else the status of the last
\* system() call
ConvPlotHistory ==
    /\ pc = "ready"
    /\ \E opened \in BOOLEAN, status \in {0, 1} :
          /\ ret' = IF opened THEN RInt(status) ELSE RInt(-1)
          /\ call' = [op |-> "conv_plot_history",
                      rows |-> IF opened THEN Max(conv.history_index, 0) ELSE 0]
    /\ UNCHANGED <<pc, args, conv, beyond, init_feature>>

\* conv_free: every buffer is released; the struct is not used again
ConvFree ==
    /\ pc = "ready"
    /\ pc' = "freed"
    /\ conv' = [conv EXCEPT
                  !.layer = [l \in DOMAIN @ |->
                                [@[l] EXCEPT !.layer = NullBuffer,
                                             !.feature = NullBuffer]],
                  !.outputs = NullBuffer,
                  !.match_threshold = NullBuffer]
    /\ call' = [op |-> "conv_free"]
    /\ UNCHANGED <<args, beyond, init_feature, ret>>

Next ==
    \/ ConvInit
    \/ ConvFeedForward
    \/ ConvLearn
    \/ ConvPlotHistory
    \/ ConvFree

NextGeom ==
    \/ ConvInit
    \/ ConvFree

NextScenario ==
    \/ ConvInit
    \/ ScenarioFeedForward
    \/ ScenarioLearn
    \/ ConvFree

\* the state machine on small networks
Spec == Init /\ [][Next]_vars

\* construction alone, over every geometry within the bounds
SpecGeom == InitGeom /\ [][NextGeom]_vars

\* the 2-layer 8x8 network
SpecScenario == InitScenario /\ [][NextScenario]_vars

----------------------------------------------------------------------------
(* Properties *)

\* every entry of buf equals v
AllEqual(buf, v) == \A i \in DOMAIN buf : buf[i] = v

\* the entries of the raw image a call was given that layer 0 holds
ImageSize(c) == c.layer[0].width * c.layer[0].height * c.layer[0].depth

\* C1: with the learning stub returning the fixed score k, a conv_learn call
\* with S >= 0 samples made while current_layer < no_of_layers, whose scratch
\* allocation succeeds, returns k*S; it raises current_layer by exactly one
\* if k*S is strictly less than match_threshold[current_layer] (the
\* threshold, at entry, of the layer current at entry), and leaves
\* current_layer unchanged otherwise.
C1_AdvanceIffBelowThreshold ==
    [][(/\ pc = "ready"
        /\ call'.op = "conv_learn"
        /\ call'.at = "training"
        /\ call'.samples >= 0)
       => LET layer == conv.current_layer
              score == RMul(call'.score, RInt(call'.samples))
              below == RLess(score, conv.match_threshold[layer])
          IN  /\ layer < conv.no_of_layers
              /\ ret' = score
              /\ below => conv'.current_layer = layer + 1
              /\ ~below => conv'.current_layer = layer]_vars

\* a training call with S = 1, k = 1/2 on layer 1 of 2 (threshold 1) has
\* returned 1/2 and advanced to the terminal state
C1_Witness ==
    /\ pc = "ready"
    /\ call.op = "conv_learn"
    /\ call.at = "training"
    /\ call.samples = 1
    /\ call.score = Rat(1, 2)
    /\ ret = Rat(1, 2)
    /\ conv.no_of_layers = 2
    /\ conv.current_layer = 2
    /\ conv.match_threshold[1] = RInt(1)

\* C2: once current_layer has reached no_of_layers, a conv_learn call
\* returns 0 and changes nothing: current_layer, the iteration counter and
\* every buffer keep their values, and the call neither runs the
\* feed-forward pass nor invokes the learning operation.
C2_TerminalCallDoesNothing ==
    [][(/\ pc = "ready"
        /\ call'.op = "conv_learn"
        /\ conv.current_layer = conv.no_of_layers)
       => /\ ret' = RInt(0)
          /\ conv' = conv
          /\ beyond' = beyond
          /\ call'.at = "terminal"
          /\ call'.steps = <<>>]_vars

\* a conv_learn call has returned at the terminal test of a 2-layer network
\* that was trained through both layers
C2_Witness ==
    /\ pc = "ready"
    /\ call.op = "conv_learn"
    /\ call.at = "terminal"
    /\ ret = RInt(0)
    /\ conv.no_of_layers = 2
    /\ conv.current_layer = 2
    /\ conv.itterations > 0

\* C3: after a successful conv_init, 0 <= current_layer <= no_of_layers
\* always holds; every call leaves current_layer unchanged or raises it by
\* exactly one, and conv_feed_forward leaves it unchanged.
C3_CurrentLayerBoundedMonotone ==
    /\ [](pc = "ready" =>
            /\ 0 <= conv.current_layer
            /\ conv.current_layer <= conv.no_of_layers)
    /\ [][(pc = "ready" /\ pc' = "ready")
          => /\ conv'.current_layer \in
                    {conv.current_layer, conv.current_layer + 1}
             /\ call'.op = "conv_feed_forward"
                    => conv'.current_layer = conv.current_layer]_vars

\* a feed-forward call was made on a 2-layer network whose training is
\* complete
C3_Witness ==
    /\ pc = "ready"
    /\ call.op = "conv_feed_forward"
    /\ conv.no_of_layers = 2
    /\ conv.current_layer = 2

\* C4: conv_feed_forward with layer count L writes only layer 0's
\* activation buffer and the destinations of stages 0..L-1 (layer l+1's
\* activation buffer when l+1 < no_of_layers, else outputs): activation
\* buffers of layers above L, the outputs buffer when L < no_of_layers,
\* every feature bank and all memory outside these buffers keep their
\* values.
C4_FeedForwardFrame ==
    [][(pc = "ready" /\ call'.op = "conv_feed_forward")
       => LET L == call'.layer
          IN  /\ \A l \in DOMAIN conv.layer :
                    /\ l > L => conv'.layer[l].layer = conv.layer[l].layer
                    /\ conv'.layer[l].feature = conv.layer[l].feature
              /\ L < conv.no_of_layers => conv'.outputs = conv.outputs
              /\ conv'.match_threshold = conv.match_threshold
              /\ beyond' = beyond]_vars

\* C5: after a successful conv_init the length of the outputs buffer equals
\* the number of entries the final stage of a full feed-forward writes
\* (outputs_width^2 * no_of_features of the last layer), so a full
\* feed-forward stores nothing past the end of outputs.
C5_OutputsHoldFinalStage ==
    pc = "ready" =>
        /\ BufLen(conv.outputs) =
              conv.outputs_width * conv.outputs_width
                  * conv.layer[conv.no_of_layers - 1].no_of_features
        /\ beyond = <<>>

\* C6 as stated: in the 2-layer 8x8x1 network with all-zero feature banks,
\* after a full feed-forward of an all-zero image every entry of layer 1's
\* activation buffer and of outputs is 1, and after a full feed-forward of
\* an all-255 image every such entry is 0.
C6_AsStated ==
    (/\ pc = "ready"
     /\ call.op = "conv_feed_forward"
     /\ call.layer = conv.no_of_layers
     /\ \A l \in DOMAIN conv.layer : AllEqual(conv.layer[l].feature, RInt(0)))
    => /\ AllEqual(call.img, 0) =>
            /\ AllEqual(conv.layer[1].layer, RInt(1))
            /\ AllEqual(conv.outputs, RInt(1))
       /\ AllEqual(call.img, 255) =>
            /\ AllEqual(conv.layer[1].layer, RInt(0))
            /\ AllEqual(conv.outputs, RInt(0))

\* C6, amended: in the 2-layer 8x8x1 network (final size 4x4, 2 features,
\* base feature width 4) with all-zero feature banks, the layers are 8 and 6
\* wide with features 4 and 3 wide; a full feed-forward of an all-zero
\* image leaves every entry of layer 1's activation buffer 1 and every entry
\* of outputs 0; a full feed-forward of an all-255 image leaves every entry
\* of layer 1's activation buffer 0 and every entry of outputs 1.
C6_ScenarioValues ==
    (/\ pc = "ready"
     /\ call.op = "conv_feed_forward"
     /\ call.layer = conv.no_of_layers
     /\ \A l \in DOMAIN conv.layer : AllEqual(conv.layer[l].feature, RInt(0)))
    => /\ conv.layer[0].width = 8 /\ conv.layer[1].width = 6
       /\ conv.layer[0].feature_width = 4 /\ conv.layer[1].feature_width = 3
       /\ BufLen(conv.layer[1].layer) = 72 /\ BufLen(conv.outputs) = 32
       /\ AllEqual(call.img, 0) =>
            /\ AllEqual(conv.layer[1].layer, RInt(1))
            /\ AllEqual(conv.outputs, RInt(0))
       /\ AllEqual(call.img, 255) =>
            /\ AllEqual(conv.layer[1].layer, RInt(0))
            /\ AllEqual(conv.outputs, RInt(1))

\* a full feed-forward of the all-zero image has run on all-zero banks
C6_Witness ==
    /\ pc = "ready"
    /\ call.op = "conv_feed_forward"
    /\ call.layer = 2
    /\ AllEqual(call.img, 0)
    /\ \A l \in DOMAIN conv.layer : AllEqual(conv.layer[l].feature, RInt(0))
    /\ AllEqual(conv.layer[0].layer, RInt(0))
    /\ AllEqual(conv.outputs, RInt(0))

\* C7: for no_of_layers > 0 and image_width >= final_image_width >= 1, the
\* widths conv_init computes satisfy width[0] = image_width, width[l+1] <=
\* width[l], and width[l] >= final_image_width; and every layer's
\* feature_width is at least 3, whatever the base feature_width.
C7_WidthsAndFeatureWidths ==
    pc = "ready" =>
        /\ \A l \in DOMAIN conv.layer : conv.layer[l].feature_width >= 3
        /\ (args.image_width >= args.final_image_width
                /\ args.final_image_width >= 1)
           => /\ conv.layer[0].width = args.image_width
              /\ \A l \in DOMAIN conv.layer :
                    /\ conv.layer[l].width >= args.final_image_width
                    /\ l + 1 \in DOMAIN conv.layer
                          => conv.layer[l + 1].width <= conv.layer[l].width

\* conv_init succeeded on 3 layers narrowing from 5 to 2 with a negative
\* base feature width: the widths are 5, 4, 3 and every feature is 3 wide
C7_Witness ==
    /\ pc = "ready"
    /\ args.no_of_layers = 3
    /\ args.image_width = 5
    /\ args.final_image_width = 2
    /\ args.feature_width = -1
    /\ conv.layer[1].width = 4
    /\ conv.layer[2].width = 3
    /\ conv.layer[2].feature_width = 3

\* C8: every conv_learn call that performs training leaves history_index
\* strictly larger than it was before the call.
C8_TrainingAppendsHistory ==
    [][(/\ pc = "ready"
        /\ call'.op = "conv_learn"
        /\ call'.at = "training")
       => conv'.history_index > conv.history_index]_vars

\* C9 as stated: a conv_learn call whose scratch allocation fails returns
\* the negative sentinel after layer 0's activation buffer has been
\* overwritten with the normalized image; current_layer, the iteration
\* counter and the feature banks are unchanged.
C9_AsStated ==
    [][(/\ pc = "ready"
        /\ call'.op = "conv_learn"
        /\ call'.at = "alloc_failed")
       => /\ ret' = RInt(-1)
          /\ conv'.layer[0].layer =
                NormalizedImage(call'.img, ImageSize(conv))
          /\ conv'.current_layer = conv.current_layer
          /\ conv'.itterations = conv.itterations
          /\ \A l \in DOMAIN conv.layer :
                conv'.layer[l].feature = conv.layer[l].feature]_vars

\* C9, amended: within a conv_learn call at a non-terminal layer the scratch
\* buffer is allocated before the feed-forward pass runs; a call whose
\* allocation fails returns -1 having done nothing else: layer 0's
\* activation buffer and every other buffer, current_layer, the iteration
\* counter and the feature banks keep their values.  A call whose
\* allocation succeeds runs the feed-forward pass after the allocation.
C9_AllocationBeforeFeedForward ==
    [][(pc = "ready" /\ call'.op = "conv_learn")
       => /\ call'.at = "alloc_failed"
                => /\ conv.current_layer < conv.no_of_layers
                   /\ ret' = RInt(-1)
                   /\ conv' = conv
                   /\ beyond' = beyond
                   /\ call'.steps = <<"alloc">>
          /\ call'.at = "training"
                => /\ call'.steps[1] = "alloc"
                   /\ call'.steps[2] = "feed_forward"
                   /\ conv'.layer[0].layer =
                         NormalizedImage(call'.img, ImageSize(conv))]_vars

\* a conv_learn call has failed to allocate its scratch buffer and layer 0
\* does not hold the image the call was given
C9_Witness ==
    /\ pc = "ready"
    /\ call.op = "conv_learn"
    /\ call.at = "alloc_failed"
    /\ ret = RInt(-1)
    /\ conv.layer[0].layer # NormalizedImage(call.img, ImageSize(conv))

\* C10: a call changes a feature bank only if it is a conv_learn call and
\* the bank is that of the layer current at entry; so the bank of a layer
\* below current_layer is never modified again, and the bank of a layer
\* above current_layer still holds what it held after conv_init.
C10_OnlyCurrentBankTrained ==
    /\ [](pc = "ready" =>
            \A l \in DOMAIN conv.layer :
                l > conv.current_layer
                    => conv.layer[l].feature = init_feature[l])
    /\ [][(pc = "ready" /\ pc' = "ready")
          => \A l \in DOMAIN conv.layer :
                conv'.layer[l].feature # conv.layer[l].feature
                    => /\ call'.op = "conv_learn"
                       /\ l = conv.current_layer]_vars

\* layer 1 of a 2-layer network is being trained: its bank was rewritten by
\* the last call, a training call, while layer 0's bank still holds what it
\* held after conv_init
C10_Witness ==
    /\ pc = "ready"
    /\ call.op = "conv_learn"
    /\ call.at = "training"
    /\ call.samples > 0
    /\ conv.no_of_layers = 2
    /\ conv.current_layer = 1
    /\ conv.layer[1].feature # init_feature[1]
    /\ conv.layer[0].feature = init_feature[0]

====
